---- MODULE Spec2Model ----
(***************************************************************************)
(* SplitEnd stacks of dtools.queues.splitends: mutable LIFO handles over   *)
(* shared, immutable, singly linked data nodes.                            *)
(*                                                                         *)
(* The heap is the sequence `nodes`: node i is nodes[i] = [data, prev].    *)
(* A reference MB[Node] is a number: 0 is the empty MB(), i > 0 is         *)
(* MB(node i).  Object identity (`is`) is equality of these numbers.       *)
(* A handle is a record [count, top, root] (the three __slots__).          *)
(* Optional data (a default, an init, the MB a pop returns) is a sequence: *)
(* <<>> is None / MB(), <<d>> is d / MB(d).                                *)
(***************************************************************************)
EXTENDS Integers, Sequences, FiniteSets, TLC

\* Bounds of the model.
MaxNodes == 3
MaxHandles == 2

\* The values pushed onto a restrictive queue in a run.
MaxQueued == 4

\* The operands of __eq__: self and other.
EqOperands == 2

\* The data pushed, and the argument lists of a call: no, one or two values.
Data == {1, 2}
Args == {<<>>} \cup {<<d>> : d \in Data} \cup {<<d, e>> : d \in Data, e \in Data}
OptData == {<<>>} \cup {<<d>> : d \in Data}
\* The function folded with (order sensitive: acc * 3 + d) and the init given
\* to fold (None, or 0).
FoldFns == {"horner"}
FoldInits == {<<>>, <<0>>}

VARIABLES nodes, handles, abs, lastOp, fork, queues, iterator
vars == <<nodes, handles, abs, lastOp, fork, queues, iterator>>

----------------------------------------------------------------------------
\* dtools.fp MB as used by the two classes

\* bool(mb): true iff the MB holds a value
MB_bool(mb) == mb # 0

----------------------------------------------------------------------------
\* class SENode

\* Faulty variant: the new node is not linked to its predecessor.
SENode_nolink(ns, data, prev) == Append(ns, [data |-> data, prev |-> 0])

\* Faulty variant: the constructor also writes its data into the predecessor.
SENode_overwrite(ns, data, prev) ==
    Append(IF prev = 0 THEN ns ELSE [ns EXCEPT ![prev].data = data],
           [data |-> data, prev |-> prev])

\* Faulty variant: the new node is its own predecessor.
SENode_selflink(ns, data, prev) ==
    Append(ns, [data |-> data, prev |-> Len(ns) + 1])

\* SENode(data, prev): a freshly allocated node, appended to the heap
SENode(ns, data, prev) == Append(ns, [data |-> data, prev |-> prev])

\* SENode.__bool__: true iff the node is not a bottom node
Node_bool(ns, n) == ns[n].prev # 0

\* SENode.get_data
get_data(ns, n) == ns[n].data

\* Faulty variant: the tail is dropped.
pop2_notail(ns, n) == <<ns[n].data, 0>>

\* SENode.pop2: the data of the head and the potential tail
pop2(ns, n) == <<ns[n].data, ns[n].prev>>

\* SENode.data_eq
data_eq(ns, a, b) == ns[a].data = ns[b].data

\* Faulty variant: the bottom node's data is not yielded.
RECURSIVE Node_iter_nobottom(_, _)
Node_iter_nobottom(ns, n) ==
    IF ns[n].prev # 0
    THEN <<ns[n].data>> \o Node_iter_nobottom(ns, ns[n].prev)
    ELSE <<>>

\* SENode.__iter__: data from the node down to the bottom node, inclusive
RECURSIVE Node_iter(_, _)
Node_iter(ns, n) ==
    IF Node_bool(ns, n)
    THEN <<ns[n].data>> \o Node_iter(ns, ns[n].prev)
    ELSE <<ns[n].data>>

\* One step of the generator SENode.__iter__ standing at node n: the data
\* yielded and the node it stands at next, 0 once the bottom was yielded.
Node_iter_step(ns, n) ==
    [yield |-> ns[n].data,
     node |-> IF Node_bool(ns, n) THEN ns[n].prev ELSE 0]

\* the function handed to fold
ApplyF(f, acc, d) ==
    CASE f = "horner" -> acc * 3 + d

\* Faulty variant: the bottom node's data is not applied.
RECURSIVE FoldLoop_nobottom(_, _, _, _)
FoldLoop_nobottom(ns, n, f, acc) ==
    IF ns[n].prev # 0
    THEN FoldLoop_nobottom(ns, ns[n].prev, f, ApplyF(f, acc, ns[n].data))
    ELSE acc

\* the while loop and the trailing application of SENode.fold
RECURSIVE FoldLoop(_, _, _, _)
FoldLoop(ns, n, f, acc) ==
    IF Node_bool(ns, n)
    THEN FoldLoop(ns, ns[n].prev, f, ApplyF(f, acc, ns[n].data))
    ELSE ApplyF(f, acc, ns[n].data)

Returns(v) == [kind |-> "value", val |-> <<v>>]
ReturnsMB(mb) == [kind |-> "MB", val |-> mb]
ReturnsNone == [kind |-> "None", val |-> <<>>]
Raises == [kind |-> "raise", val |-> <<>>]
ReturnsBool(b) == [kind |-> "bool", val |-> <<IF b THEN 1 ELSE 0>>]

\* SENode.fold: without init the node's data seeds the accumulator and the
\* walk starts at self._prev.get(), which raises on the empty MB
Node_fold(ns, n, f, init) ==
    IF init = <<>>
    THEN IF MB_bool(ns[n].prev)
         THEN Returns(FoldLoop(ns, ns[n].prev, f, ns[n].data))
         ELSE Raises
    ELSE Returns(FoldLoop(ns, n, f, init[1]))

----------------------------------------------------------------------------
\* class SplitEnd

EmptySE == [count |-> 0, top |-> 0, root |-> 0]

\* Faulty variant: the loop moves the top and leaves the count.
RECURSIVE PushRest_nocount(_, _, _)
PushRest_nocount(ns, se, ds) ==
    IF ds = <<>>
    THEN [ns |-> ns, se |-> se]
    ELSE LET ns1 == Append(ns, [data |-> Head(ds), prev |-> se.top])
         IN  PushRest_nocount(ns1, [se EXCEPT !.top = Len(ns1)], Tail(ds))

\* the for loop of __init__ and push over ds[1:]
RECURSIVE PushRest(_, _, _)
PushRest(ns, se, ds) ==
    IF ds = <<>>
    THEN [ns |-> ns, se |-> se]
    ELSE LET ns1 == SENode(ns, Head(ds), se.top)
         IN  PushRest(ns1,
                      [se EXCEPT !.top = Len(ns1), !.count = se.count + 1],
                      Tail(ds))

\* Faulty variant: the values are taken newest-first.
SE_init_rev(ns, ds) ==
    IF Len(ds) > 0
    THEN LET rev == [i \in 1..Len(ds) |-> ds[Len(ds) + 1 - i]]
             ns1 == Append(ns, [data |-> rev[1], prev |-> 0])
         IN  PushRest(ns1, [count |-> 1, top |-> Len(ns1), root |-> Len(ns1)],
                      Tail(rev))
    ELSE [ns |-> ns, se |-> [count |-> 0, top |-> 0, root |-> 0]]

\* SplitEnd.__init__
SE_init(ns, ds) ==
    IF Len(ds) > 0
    THEN LET ns1 == SENode(ns, ds[1], EmptySE.top)
         IN  PushRest(ns1, [count |-> 1, top |-> Len(ns1), root |-> Len(ns1)],
                      Tail(ds))
    ELSE [ns |-> ns, se |-> EmptySE]

\* Faulty variant: a push onto a non-empty handle overwrites the data of the
\* top node in place instead of allocating a node.
SE_push_inplace(ns, se, ds) ==
    IF Len(ds) > 0 /\ se.top # 0
    THEN [ns |-> [ns EXCEPT ![se.top].data = ds[Len(ds)]], se |-> se]
    ELSE IF Len(ds) > 0
    THEN LET ns1 == Append(ns, [data |-> ds[1], prev |-> 0])
         IN  PushRest(ns1, [count |-> 1, top |-> Len(ns1), root |-> Len(ns1)],
                      Tail(ds))
    ELSE [ns |-> ns, se |-> se]

\* SplitEnd.push
SE_push(ns, se, ds) ==
    IF Len(ds) > 0
    THEN LET ns1 == SENode(ns, ds[1], se.top)
             se1 == IF MB_bool(se.top)
                    THEN [se EXCEPT !.top = Len(ns1), !.count = se.count + 1]
                    ELSE [count |-> 1, top |-> Len(ns1), root |-> Len(ns1)]
         IN  PushRest(ns1, se1, Tail(ds))
    ELSE [ns |-> ns, se |-> se]

\* Faulty variant: the root is kept when the last value is popped.
SE_pop_noreset(ns, se) ==
    IF se.count > 0
    THEN [se |-> [se EXCEPT !.top = ns[se.top].prev, !.count = se.count - 1],
          ret |-> [kind |-> "MB", val |-> <<ns[se.top].data>>]]
    ELSE [se |-> se, ret |-> [kind |-> "MB", val |-> <<>>]]

\* Faulty variant: the count is not decremented.
SE_pop_nodec(ns, se) ==
    IF se.count > 0
    THEN [se |-> [se EXCEPT !.top = ns[se.top].prev],
          ret |-> [kind |-> "MB", val |-> <<ns[se.top].data>>]]
    ELSE [se |-> se, ret |-> [kind |-> "MB", val |-> <<>>]]

\* Faulty variant: popping an empty handle raises.
SE_pop_raise(ns, se) ==
    IF se.count > 0
    THEN LET se1 == [se EXCEPT !.top = ns[se.top].prev, !.count = se.count - 1]
         IN  [se |-> IF se1.count = 0 THEN [se1 EXCEPT !.root = se1.top] ELSE se1,
              ret |-> [kind |-> "MB", val |-> <<ns[se.top].data>>]]
    ELSE [se |-> se, ret |-> [kind |-> "raise", val |-> <<>>]]

\* SplitEnd.pop
SE_pop(ns, se) ==
    IF se.count > 0
    THEN LET p == pop2(ns, se.top)
             se1 == [se EXCEPT !.top = p[2], !.count = se.count - 1]
             se2 == IF se1.count = 0 THEN [se1 EXCEPT !.root = se1.top] ELSE se1
         IN  [se |-> se2, ret |-> ReturnsMB(<<p[1]>>)]
    ELSE [se |-> se, ret |-> ReturnsMB(<<>>)]

\* Faulty variant: a default that is given is returned whatever the handle holds.
SE_peak_default(ns, se, default) ==
    IF default # <<>>
    THEN [kind |-> "value", val |-> default]
    ELSE IF se.count = 0
         THEN [kind |-> "raise", val |-> <<>>]
         ELSE [kind |-> "value", val |-> <<ns[se.top].data>>]

\* SplitEnd.peak
SE_peak(ns, se, default) ==
    IF se.count = 0
    THEN IF default = <<>> THEN Raises ELSE Returns(default[1])
    ELSE Returns(get_data(ns, se.top))

\* Faulty variant: the copy is given the top but not the count.
SE_copy_nocount(se) == [count |-> 0, top |-> se.top, root |-> 0]

\* SplitEnd.copy: a new SplitEnd() given the top and the count of self
SE_copy(se) == [EmptySE EXCEPT !.top = se.top, !.count = se.count]

\* Faulty variant: folding an empty handle without init returns the init, None.
SE_fold_none(ns, se, f, init) ==
    IF se.top # 0
    THEN Node_fold(ns, se.top, f, init)
    ELSE IF init # <<>> THEN Returns(init[1]) ELSE ReturnsNone

\* SplitEnd.fold
SE_fold(ns, se, f, init) ==
    IF se.top # 0
    THEN Node_fold(ns, se.top, f, init)
    ELSE IF init # <<>> THEN Returns(init[1]) ELSE Raises

\* SplitEnd.__iter__
SE_iter(ns, se) == IF se.top = 0 THEN <<>> ELSE Node_iter(ns, se.top)

\* Faulty variant: the iterator starts at the root of the handle.
SE_iter_start_root(se) == se.root

\* SplitEnd.__iter__: the node the iterator returned starts at; the empty
\* tuple's iterator for an empty handle
SE_iter_start(se) == IF ~MB_bool(se.top) THEN 0 ELSE se.top

\* SplitEnd.__len__
SE_len(se) == se.count

\* Faulty variant: the truth value is that of the root.
SE_bool_root(se) == se.root # 0

\* SplitEnd.__bool__
SE_bool(se) == MB_bool(se.top)

\* Faulty variant: the walk stops at the first pair of nodes with equal data.
EqLoop_first(ns, left, right, k) ==
    IF k = 0 THEN TRUE
    ELSE IF left = right THEN TRUE
    ELSE ns[left].data = ns[right].data

\* Faulty variant: nodes are compared by identity alone.
EqLoop_ident(ns, left, right, k) == k = 0 \/ left = right

\* the for loop of SplitEnd.__eq__ : k iterations left
RECURSIVE EqLoop(_, _, _, _)
EqLoop(ns, left, right, k) ==
    IF k = 0 THEN TRUE
    ELSE IF left = right THEN TRUE
    ELSE IF ~data_eq(ns, left, right) THEN FALSE
    ELSE IF Node_bool(ns, left)
         THEN EqLoop(ns, ns[left].prev, ns[right].prev, k - 1)
         ELSE EqLoop(ns, left, right, k - 1)

\* SplitEnd.__eq__
SE_eq(ns, a, b) ==
    IF a.count # b.count THEN FALSE
    ELSE IF a.count = 0 THEN TRUE
    ELSE EqLoop(ns, a.top, b.top, a.count)

\* Faulty variant: identical nodes are not recognised, the data of every
\* pair of nodes is compared.
RECURSIVE EqCount_noshort(_, _, _, _, _)
EqCount_noshort(ns, left, right, k, c) ==
    IF k = 0 THEN [ret |-> TRUE, iters |-> c.iters, cmps |-> c.cmps]
    ELSE IF ns[left].data # ns[right].data
    THEN [ret |-> FALSE, iters |-> c.iters + 1, cmps |-> c.cmps + 1]
    ELSE IF ns[left].prev # 0
         THEN EqCount_noshort(ns, ns[left].prev, ns[right].prev, k - 1,
                              [iters |-> c.iters + 1, cmps |-> c.cmps + 1])
         ELSE EqCount_noshort(ns, left, right, k - 1,
                              [iters |-> c.iters + 1, cmps |-> c.cmps + 1])

\* the for loop of SplitEnd.__eq__ with its iterations and its calls of
\* data_eq counted in c: k iterations left
RECURSIVE EqCount(_, _, _, _, _)
EqCount(ns, left, right, k, c) ==
    IF k = 0 THEN [ret |-> TRUE, iters |-> c.iters, cmps |-> c.cmps]
    ELSE IF left = right
    THEN [ret |-> TRUE, iters |-> c.iters + 1, cmps |-> c.cmps]
    ELSE IF ~data_eq(ns, left, right)
    THEN [ret |-> FALSE, iters |-> c.iters + 1, cmps |-> c.cmps + 1]
    ELSE IF Node_bool(ns, left)
         THEN EqCount(ns, ns[left].prev, ns[right].prev, k - 1,
                      [iters |-> c.iters + 1, cmps |-> c.cmps + 1])
         ELSE EqCount(ns, left, right, k - 1,
                      [iters |-> c.iters + 1, cmps |-> c.cmps + 1])

\* SplitEnd.__eq__ with the iterations and the data comparisons counted
SE_eq_counted(ns, a, b) ==
    IF a.count # b.count THEN [ret |-> FALSE, iters |-> 0, cmps |-> 0]
    ELSE IF a.count = 0 THEN [ret |-> TRUE, iters |-> 0, cmps |-> 0]
    ELSE EqCount(ns, a.top, b.top, a.count, [iters |-> 0, cmps |-> 0])

----------------------------------------------------------------------------
\* classes FIFOQueue and LIFOQueue of dtools.queues.restrictive: a buffer
\* that grows at the right; a FIFOQueue gives from the left, a LIFOQueue
\* from the right.

\* FIFOQueue.push, LIFOQueue.push
Q_push(buf, ds) == buf \o ds

\* FIFOQueue.__len__, LIFOQueue.__len__
Q_len(buf) == Len(buf)

\* FIFOQueue.__bool__, LIFOQueue.__bool__
Q_bool(buf) == Len(buf) > 0

\* Faulty variant: the value pushed last is given.
FQ_pop_right(buf) ==
    IF Len(buf) > 0
    THEN [buf |-> SubSeq(buf, 1, Len(buf) - 1),
          ret |-> [kind |-> "MB", val |-> <<buf[Len(buf)]>>]]
    ELSE [buf |-> buf, ret |-> [kind |-> "MB", val |-> <<>>]]

\* FIFOQueue.pop
FQ_pop(buf) ==
    IF Q_bool(buf)
    THEN [buf |-> Tail(buf), ret |-> ReturnsMB(<<Head(buf)>>)]
    ELSE [buf |-> buf, ret |-> ReturnsMB(<<>>)]

\* Faulty variant: the value pushed first is given.
LQ_pop_left(buf) ==
    IF Len(buf) > 0
    THEN [buf |-> Tail(buf), ret |-> [kind |-> "MB", val |-> <<Head(buf)>>]]
    ELSE [buf |-> buf, ret |-> [kind |-> "MB", val |-> <<>>]]

\* LIFOQueue.pop
LQ_pop(buf) ==
    IF Q_bool(buf)
    THEN [buf |-> SubSeq(buf, 1, Len(buf) - 1),
          ret |-> ReturnsMB(<<buf[Len(buf)]>>)]
    ELSE [buf |-> buf, ret |-> ReturnsMB(<<>>)]

\* LIFOQueue.peak
LQ_peak(buf) ==
    IF Q_bool(buf) THEN ReturnsMB(<<buf[Len(buf)]>>) ELSE ReturnsMB(<<>>)

----------------------------------------------------------------------------
\* The program: clients constructing handles and calling their methods.
\* abs[h] is the abstract list-stack (top first) driven by the same calls;
\* lastOp records the last call, its arguments and what it returned;
\* fork follows a handle a and its copy b from the copy on: the top they
\* shared, how many nodes each stands above it now (-1 once it has popped
\* below it), and whether each has pushed.

Handles == 1..Len(handles)

Op(op, h, arg, f, ret, rt) ==
    [op |-> op, h |-> h, arg |-> arg, f |-> f, ret |-> ret, rt |-> rt]

RECURSIVE Reverse(_)
Reverse(s) == IF s = <<>> THEN <<>> ELSE Reverse(Tail(s)) \o <<Head(s)>>

\* A FIFOQueue and a LIFOQueue, each a buffer (oldest value first), and for
\* each the values pushed so far, in order, with those popped marked out.
NoQueues == [fifo |-> <<>>, lifo |-> <<>>, fin |-> <<>>, lin |-> <<>>]

\* The iterator a client holds: the handle it was obtained from, the node it
\* yields next (0 when exhausted), the values yielded so far, and the
\* handle's contents when it was obtained.
NoIterator == [open |-> FALSE, h |-> 0, node |-> 0, out |-> <<>>, snap |-> <<>>]

NoFork == [a |-> 0, b |-> 0, top |-> 0, da |-> 0, db |-> 0,
           pa |-> FALSE, pb |-> FALSE]

Init ==
    /\ nodes = <<>>
    /\ handles = <<>>
    /\ abs = <<>>
    /\ lastOp = Op("start", 0, <<>>, "", ReturnsNone, <<>>)
    /\ fork = NoFork
    /\ queues = NoQueues
    /\ iterator = NoIterator

\* h = SplitEnd(*ds), while at most maxN nodes and maxH handles exist
DoConstruct(ds, maxN, maxH) ==
    /\ Len(handles) < maxH
    /\ Len(nodes) + Len(ds) <= maxN
    /\ LET r == SE_init(nodes, ds)
       IN  /\ nodes' = r.ns
           /\ handles' = Append(handles, r.se)
    /\ abs' = Append(abs, Reverse(ds))
    /\ UNCHANGED <<queues, iterator>>
    /\ lastOp' = Op("init", Len(handles) + 1, ds, "", ReturnsNone, <<>>)

\* handles[h].push(*ds), while at most maxN nodes exist
DoPush(h, ds, maxN) ==
    /\ Len(nodes) + Len(ds) <= maxN
    /\ LET r == SE_push(nodes, handles[h], ds)
       IN  /\ nodes' = r.ns
           /\ handles' = [handles EXCEPT ![h] = r.se]
    /\ abs' = [abs EXCEPT ![h] = Reverse(ds) \o @]
    /\ UNCHANGED <<queues, iterator>>
    /\ lastOp' = Op("push", h, ds, "", ReturnsNone,
                    IF Len(ds) = 1
                    THEN <<ds[1], handles[h].top, handles[h].count>>
                    ELSE <<>>)

\* handles[h].pop()
DoPop(h) ==
    /\ LET r == SE_pop(nodes, handles[h])
       IN  /\ handles' = [handles EXCEPT ![h] = r.se]
           /\ lastOp' = Op("pop", h, <<>>, "", r.ret,
                           IF lastOp.op = "push" /\ lastOp.h = h
                           THEN lastOp.rt ELSE <<>>)
    /\ abs' = [abs EXCEPT ![h] = IF @ = <<>> THEN <<>> ELSE Tail(@)]
    /\ UNCHANGED <<nodes, queues, iterator>>

\* handles[h].peak(default)
Peak(h, default) ==
    /\ lastOp' = Op("peak", h, default, "",
                    SE_peak(nodes, handles[h], default), <<>>)
    /\ UNCHANGED <<nodes, handles, abs, fork, queues, iterator>>

\* handles[h].copy(), while at most maxH handles exist
DoCopy(h, maxH) ==
    /\ Len(handles) < maxH
    /\ handles' = Append(handles, SE_copy(handles[h]))
    /\ abs' = Append(abs, abs[h])
    /\ lastOp' = Op("copy", h, <<Len(handles) + 1>>, "", ReturnsNone, <<>>)
    /\ UNCHANGED <<nodes, queues, iterator>>

\* handles[h].fold(f, init)
Fold(h, f, init) ==
    /\ lastOp' = Op("fold", h, init, f,
                    SE_fold(nodes, handles[h], f, init), <<>>)
    /\ UNCHANGED <<nodes, handles, abs, fork, queues, iterator>>

Construct(ds) == DoConstruct(ds, MaxNodes, MaxHandles) /\ UNCHANGED fork
Push(h, ds) == DoPush(h, ds, MaxNodes) /\ UNCHANGED fork
Pop(h) == DoPop(h) /\ UNCHANGED fork
Copy(h) == DoCopy(h, MaxHandles) /\ UNCHANGED fork

\* bool(handles[h])
Bool(h) ==
    /\ lastOp' = Op("bool", h, <<>>, "", ReturnsBool(SE_bool(handles[h])), <<>>)
    /\ UNCHANGED <<nodes, handles, abs, fork, queues, iterator>>

\* The runs in which every operation takes part hold one node less.
EveryNodes == MaxNodes - 1
EveryConstruct(ds) == DoConstruct(ds, EveryNodes, MaxHandles) /\ UNCHANGED fork
EveryPush(h, ds) == DoPush(h, ds, EveryNodes) /\ UNCHANGED fork

\* tuple(handles[h]): the iteration is run to its end
Iter(h) ==
    /\ lastOp' = Op("iter", h, <<>>, "",
                    [kind |-> "iter", val |-> SE_iter(nodes, handles[h])], <<>>)
    /\ UNCHANGED <<nodes, handles, abs, fork, queues, iterator>>

\* it = iter(handles[h])
IterOpen(h) ==
    /\ iterator' = [open |-> TRUE, h |-> h, node |-> SE_iter_start(handles[h]),
                    out |-> <<>>, snap |-> SE_iter(nodes, handles[h])]
    /\ lastOp' = Op("iter.open", h, <<>>, "", ReturnsNone, <<>>)
    /\ UNCHANGED <<nodes, handles, abs, fork, queues>>

\* next(it) on an iterator that is not exhausted; rt keeps the call that
\* came before this one
IterNext ==
    /\ iterator.open
    /\ iterator.node # 0
    /\ LET r == Node_iter_step(nodes, iterator.node)
       IN  /\ iterator' = [iterator EXCEPT !.node = r.node,
                                            !.out = Append(@, r.yield)]
           /\ lastOp' = Op("iter.next", iterator.h, <<>>, "", Returns(r.yield),
                           <<lastOp.op>>)
    /\ UNCHANGED <<nodes, handles, abs, fork, queues>>

\* The values pushed and not yet popped, by their place in the order pushed.
Pending(log) == {i \in 1..Len(log) : ~log[i].out}
Oldest(log) == CHOOSE i \in Pending(log) : \A j \in Pending(log) : i <= j
Newest(log) == CHOOSE i \in Pending(log) : \A j \in Pending(log) : i >= j
Logged(ds) == [i \in 1..Len(ds) |-> [v |-> ds[i], out |-> FALSE]]

\* fq.push(*ds)
FQPush(ds) ==
    /\ Len(queues.fin) + Len(ds) <= MaxQueued
    /\ queues' = [queues EXCEPT !.fifo = Q_push(@, ds), !.fin = @ \o Logged(ds)]
    /\ lastOp' = Op("fq.push", 0, ds, "", ReturnsNone, <<>>)
    /\ UNCHANGED <<nodes, handles, abs, fork, iterator>>

\* fq.pop()
FQPop ==
    /\ LET r == FQ_pop(queues.fifo)
       IN  /\ queues' = [queues EXCEPT
                            !.fifo = r.buf,
                            !.fin = IF Pending(@) = {} THEN @
                                    ELSE [@ EXCEPT ![Oldest(@)].out = TRUE]]
           /\ lastOp' = Op("fq.pop", 0, <<>>, "", r.ret, <<>>)
    /\ UNCHANGED <<nodes, handles, abs, fork, iterator>>

\* lq.push(*ds)
LQPush(ds) ==
    /\ Len(queues.lin) + Len(ds) <= MaxQueued
    /\ queues' = [queues EXCEPT !.lifo = Q_push(@, ds), !.lin = @ \o Logged(ds)]
    /\ lastOp' = Op("lq.push", 0, ds, "", ReturnsNone, <<>>)
    /\ UNCHANGED <<nodes, handles, abs, fork, iterator>>

\* lq.pop()
LQPop ==
    /\ LET r == LQ_pop(queues.lifo)
       IN  /\ queues' = [queues EXCEPT
                            !.lifo = r.buf,
                            !.lin = IF Pending(@) = {} THEN @
                                    ELSE [@ EXCEPT ![Newest(@)].out = TRUE]]
           /\ lastOp' = Op("lq.pop", 0, <<>>, "", r.ret, <<>>)
    /\ UNCHANGED <<nodes, handles, abs, fork, iterator>>

\* lq.peak()
LQPeak ==
    /\ lastOp' = Op("lq.peak", 0, <<>>, "", LQ_peak(queues.lifo), <<>>)
    /\ UNCHANGED <<nodes, handles, abs, fork, queues, iterator>>

\* handles[a] == handles[b]
Equals(a, b) ==
    /\ lastOp' = Op("eq", a, <<b>>, "",
                    ReturnsBool(SE_eq(nodes, handles[a], handles[b])), <<>>)
    /\ UNCHANGED <<nodes, handles, abs, fork, queues, iterator>>

\* __eq__ compares two handles: the calls on a pair of handles, which may
\* hold one node more.
PairNodes == MaxNodes + 1

PairConstruct(ds) == DoConstruct(ds, PairNodes, EqOperands) /\ UNCHANGED fork
PairPush(h, ds) == DoPush(h, ds, PairNodes) /\ UNCHANGED fork
PairPop(h) == DoPop(h) /\ UNCHANGED fork
PairCopy(h) == DoCopy(h, EqOperands) /\ UNCHANGED fork

\* The same calls with the fork followed: a handle moves delta nodes up
\* (a push) or down (a pop); once one of the two pops below the shared top
\* the fork is no longer followed.
ForkAfter(h, delta) ==
    IF fork.a = 0 \/ h \notin {fork.a, fork.b} THEN fork
    ELSE IF (IF h = fork.a THEN fork.da ELSE fork.db) + delta < 0 THEN NoFork
    ELSE IF h = fork.a
    THEN [fork EXCEPT !.da = @ + delta, !.pa = @ \/ delta > 0]
    ELSE [fork EXCEPT !.db = @ + delta, !.pb = @ \/ delta > 0]

ForkConstruct(ds) == DoConstruct(ds, PairNodes, EqOperands) /\ UNCHANGED fork
ForkPush(h, ds) == DoPush(h, ds, PairNodes) /\ fork' = ForkAfter(h, Len(ds))
ForkPop(h) == DoPop(h) /\ fork' = ForkAfter(h, -1)
ForkCopy(h) ==
    /\ DoCopy(h, EqOperands)
    /\ fork' = [a |-> h, b |-> Len(handles) + 1, top |-> handles[h].top,
                da |-> 0, db |-> 0, pa |-> FALSE, pb |-> FALSE]

\* The calls that change a handle or create one.
NextStack ==
    \/ \E ds \in Args : Construct(ds)
    \/ \E h \in Handles, ds \in Args : Push(h, ds)
    \/ \E h \in Handles : Pop(h)
    \/ \E h \in Handles : Copy(h)

NextPeak == NextStack \/ \E h \in Handles, default \in OptData : Peak(h, default)

NextFold ==
    NextStack \/ \E h \in Handles, f \in FoldFns, init \in FoldInits : Fold(h, f, init)

NextBool == NextStack \/ \E h \in Handles : Bool(h)

NextPair ==
    \/ \E ds \in Args : PairConstruct(ds)
    \/ \E h \in Handles, ds \in Args : PairPush(h, ds)
    \/ \E h \in Handles : PairPop(h)
    \/ \E h \in Handles : PairCopy(h)
    \/ \E a \in Handles, b \in Handles : Equals(a, b)

NextFork ==
    \/ \E ds \in Args : ForkConstruct(ds)
    \/ \E h \in Handles, ds \in Args : ForkPush(h, ds)
    \/ \E h \in Handles : ForkPop(h)
    \/ \E h \in Handles : ForkCopy(h)
    \/ \E a \in Handles, b \in Handles : Equals(a, b)

\* Every operation of SplitEnd.
NextEvery ==
    \/ \E ds \in Args : EveryConstruct(ds)
    \/ \E h \in Handles, ds \in Args : EveryPush(h, ds)
    \/ \E h \in Handles : Pop(h)
    \/ \E h \in Handles : Copy(h)
    \/ \E h \in Handles, default \in OptData : Peak(h, default)
    \/ \E h \in Handles, f \in FoldFns, init \in FoldInits : Fold(h, f, init)
    \/ \E a \in Handles, b \in Handles : Equals(a, b)
    \/ \E h \in Handles : Iter(h)

\* The calls that change a handle or create one, and an iterator obtained and
\* consumed between them.
NextIter ==
    \/ \E ds \in Args : EveryConstruct(ds)
    \/ \E h \in Handles, ds \in Args : EveryPush(h, ds)
    \/ \E h \in Handles : Pop(h)
    \/ \E h \in Handles : Copy(h)
    \/ \E h \in Handles : IterOpen(h)
    \/ IterNext

NextFIFO == (\E ds \in Args : FQPush(ds)) \/ FQPop

NextLIFO == (\E ds \in Args : LQPush(ds)) \/ LQPop \/ LQPeak

Next ==
    \/ NextStack \/ NextPeak \/ NextFold \/ NextBool \/ NextPair \/ NextFork
    \/ NextEvery \/ NextIter
    \/ NextFIFO \/ NextLIFO

Spec == Init /\ [][Next]_vars

\* peak and fold change no handle and no node, so the handles and nodes
\* reachable are those the other calls reach: each is checked beside them.
SpecStack == Init /\ [][NextStack]_vars
SpecPeak == Init /\ [][NextPeak]_vars
SpecFold == Init /\ [][NextFold]_vars
SpecBool == Init /\ [][NextBool]_vars
SpecPair == Init /\ [][NextPair]_vars
SpecFork == Init /\ [][NextFork]_vars
SpecEvery == Init /\ [][NextEvery]_vars
SpecIter == Init /\ [][NextIter]_vars
SpecFIFO == Init /\ [][NextFIFO]_vars
SpecLIFO == Init /\ [][NextLIFO]_vars

----------------------------------------------------------------------------
\* Properties

\* the number of nodes on the prev-chain from reference n to the bottom node
RECURSIVE ChainLen(_, _)
ChainLen(ns, n) == IF n = 0 THEN 0 ELSE 1 + ChainLen(ns, ns[n].prev)

\* the left fold of f over a sequence, seeded with acc
RECURSIVE FoldLeft(_, _, _)
FoldLeft(f, acc, s) ==
    IF s = <<>> THEN acc ELSE FoldLeft(f, ApplyF(f, acc, Head(s)), Tail(s))

\* C1: a push or a pop on a handle b leaves the length, the top reference and
\* the iterated sequence of every other handle a unchanged, also when a and b
\* share nodes; and when b stood where a stands (as right after b = a.copy()),
\* after b.push(x) a does not equal b.
SharingSafety ==
    [][\A a \in Handles :
          (lastOp'.op \in {"push", "pop"} /\ lastOp'.h # a) =>
              /\ SE_len(handles'[a]) = SE_len(handles[a])
              /\ handles'[a].top = handles[a].top
              /\ SE_iter(nodes', handles'[a]) = SE_iter(nodes, handles[a])
              /\ (/\ lastOp'.op = "push"
                  /\ Len(lastOp'.arg) = 1
                  /\ handles[lastOp'.h].top = handles[a].top
                  /\ handles[lastOp'.h].count = handles[a].count)
                 => ~SE_eq(nodes', handles'[a], handles'[lastOp'.h])]_vars

\* b = a.copy(); b.push(x) has happened on a non-empty a: b's new node sits on
\* a's top node, and a is as it was
SharingWitness ==
    /\ lastOp.op = "push"
    /\ lastOp.h = 2
    /\ Len(lastOp.arg) = 1
    /\ handles[1].top # 0
    /\ nodes[handles[2].top].prev = handles[1].top
    /\ handles[2].count = handles[1].count + 1
    /\ ~SE_eq(nodes, handles[1], handles[2])

\* C2: iterating a handle yields the contents of the abstract list-stack
\* driven by the same construct, push, pop and copy calls, top first.
LIFORefinement ==
    \A h \in Handles : SE_iter(nodes, handles[h]) = abs[h]

\* a copy that was pushed and then popped, beside its different original
LIFOWitness ==
    /\ Len(handles) = 2
    /\ lastOp.op = "pop"
    /\ lastOp.h = 2
    /\ Len(abs[2]) >= 2
    /\ abs[2][1] # abs[2][2]
    /\ abs[1] # <<>>
    /\ abs[1] # abs[2]
    /\ handles[1].top # handles[2].top

\* C3: count is the number of nodes from top to the bottom node, which is
\* the number of elements iteration produces, and is 0 iff top is empty.
CountInvariant ==
    \A h \in Handles :
        /\ handles[h].count = ChainLen(nodes, handles[h].top)
        /\ handles[h].count = Len(SE_iter(nodes, handles[h]))
        /\ (handles[h].count = 0 <=> handles[h].top = 0)

\* a handle emptied by pops beside one that still holds two nodes
CountWitness ==
    /\ Len(handles) = 2
    /\ lastOp.op = "pop"
    /\ handles[lastOp.h].count = 0
    /\ \E h \in Handles : handles[h].count = 2

\* C4: pop on a non-empty handle returns MB(data of the top node), sets top
\* to that node's prev, decrements count by one and changes no node.
PopNonEmpty ==
    [][\A h \in Handles :
          (lastOp'.op = "pop" /\ lastOp'.h = h /\ handles[h].top # 0) =>
              /\ lastOp'.ret = [kind |-> "MB", val |-> <<nodes[handles[h].top].data>>]
              /\ handles'[h].top = nodes[handles[h].top].prev
              /\ handles'[h].count = handles[h].count - 1
              /\ nodes' = nodes]_vars

\* a pop that returned data and left a non-empty handle
PopNonEmptyWitness ==
    /\ lastOp.op = "pop"
    /\ lastOp.ret.val # <<>>
    /\ handles[lastOp.h].top # 0

\* C5: pop on an empty handle returns MB() and leaves count, top and root as
\* they were, and so does the pop after it.
PopEmpty ==
    [][\A h \in Handles :
          (lastOp'.op = "pop" /\ lastOp'.h = h /\ handles[h].count = 0) =>
              /\ lastOp'.ret = [kind |-> "MB", val |-> <<>>]
              /\ handles'[h] = handles[h]
              /\ nodes' = nodes
              /\ SE_pop(nodes', handles'[h]) =
                    [se |-> handles[h], ret |-> [kind |-> "MB", val |-> <<>>]]]_vars

\* a pop of an empty handle has returned MB()
PopEmptyWitness ==
    /\ lastOp.op = "pop"
    /\ lastOp.ret = [kind |-> "MB", val |-> <<>>]
    /\ handles[lastOp.h] = [count |-> 0, top |-> 0, root |-> 0]

\* C6: push(x) immediately followed by pop() returns x and restores the
\* length and the top reference the handle had before the push.
RoundTrip ==
    (lastOp.op = "pop" /\ lastOp.rt # <<>>) =>
        /\ lastOp.ret = [kind |-> "MB", val |-> <<lastOp.rt[1]>>]
        /\ handles[lastOp.h].top = lastOp.rt[2]
        /\ handles[lastOp.h].count = lastOp.rt[3]

\* the round trip was made on a non-empty copy
RoundTripWitness ==
    /\ lastOp.op = "pop"
    /\ lastOp.h = 2
    /\ lastOp.rt # <<>>
    /\ lastOp.rt[2] # 0
    /\ handles[1].top = handles[2].top

\* C7: copy() returns a new handle whose top, root and count are those of
\* the original.
CopyIdentical ==
    lastOp.op = "copy" =>
        /\ handles[lastOp.arg[1]].top = handles[lastOp.h].top
        /\ handles[lastOp.arg[1]].root = handles[lastOp.h].root
        /\ handles[lastOp.arg[1]].count = handles[lastOp.h].count

\* C8: peak changes no handle and no node; it returns the top node's data on
\* a non-empty handle whatever the default, the default on an empty handle
\* when one is given, and raises otherwise.
PeakContract ==
    [][lastOp'.op = "peak" =>
          /\ handles' = handles
          /\ nodes' = nodes
          /\ lastOp'.ret =
                IF SE_iter(nodes, handles[lastOp'.h]) # <<>>
                THEN [kind |-> "value",
                      val |-> <<nodes[handles[lastOp'.h].top].data>>]
                ELSE IF lastOp'.arg # <<>>
                     THEN [kind |-> "value", val |-> lastOp'.arg]
                     ELSE [kind |-> "raise", val |-> <<>>]]_vars

\* peak with a default on a non-empty handle returned the top data, which is
\* not the default
PeakWitness ==
    /\ lastOp.op = "peak"
    /\ lastOp.arg # <<>>
    /\ handles[lastOp.h].count = 2
    /\ lastOp.ret.kind = "value"
    /\ lastOp.ret.val # lastOp.arg

\* C9: fold(f, init) with an init is the left fold of f over the iteration
\* of the handle seeded with init (init itself on an empty handle).
FoldWithInit ==
    (lastOp.op = "fold" /\ lastOp.arg # <<>>) =>
        lastOp.ret =
            [kind |-> "value",
             val |-> <<FoldLeft(lastOp.f, lastOp.arg[1],
                                SE_iter(nodes, handles[lastOp.h]))>>]

\* a fold with init over three nodes whose data differ
FoldWithInitWitness ==
    /\ lastOp.op = "fold"
    /\ lastOp.arg # <<>>
    /\ lastOp.f = "horner"
    /\ handles[lastOp.h].count = 3
    /\ abs[lastOp.h][1] # abs[lastOp.h][2]
    /\ lastOp.ret.kind = "value"

\* C10: fold(f) without init on a non-empty handle holding d1 .. dn (top
\* first) returns f(...f(f(d1, d2), d3)..., dn), which is d1 for n = 1.
FoldNoInit ==
    (lastOp.op = "fold" /\ lastOp.arg = <<>> /\ handles[lastOp.h].top # 0) =>
        lastOp.ret =
            [kind |-> "value",
             val |-> <<FoldLeft(lastOp.f,
                                Head(SE_iter(nodes, handles[lastOp.h])),
                                Tail(SE_iter(nodes, handles[lastOp.h])))>>]

\* C11: fold on an empty handle without init raises and returns no value;
\* fold changes no handle and no node, whatever it is given.
FoldEmptyRaises ==
    [][lastOp'.op = "fold" =>
          /\ handles' = handles
          /\ nodes' = nodes
          /\ (lastOp'.arg = <<>> /\ SE_iter(nodes, handles[lastOp'.h]) = <<>>)
             => /\ lastOp'.ret.kind = "raise"
                /\ lastOp'.ret.val = <<>>]_vars

\* a handle emptied by a pop was folded without init, and that raised
FoldEmptyWitness ==
    /\ lastOp.op = "fold"
    /\ lastOp.arg = <<>>
    /\ handles[lastOp.h] = [count |-> 0, top |-> 0, root |-> 0]
    /\ Len(nodes) > 0
    /\ lastOp.ret.kind = "raise"

\* C12: equals is false when the lengths differ and otherwise true iff the
\* two top-to-bottom data sequences are equal, for every pair of handles,
\* wherever their chains share nodes.
EqualsAgrees ==
    /\ \A a \in Handles, b \in Handles :
          /\ SE_eq(nodes, handles[a], handles[b])
                = (SE_iter(nodes, handles[a]) = SE_iter(nodes, handles[b]))
          /\ SE_len(handles[a]) # SE_len(handles[b])
                => ~SE_eq(nodes, handles[a], handles[b])
    /\ lastOp.op = "eq" =>
          lastOp.ret =
              [kind |-> "bool",
               val |-> <<IF SE_iter(nodes, handles[lastOp.h])
                             = SE_iter(nodes, handles[lastOp.arg[1]])
                         THEN 1 ELSE 0>>]

\* two handles of two nodes each, sharing none, equal at the top and different
\* at the bottom, were compared: false
EqualsWitness ==
    /\ lastOp.op = "eq"
    /\ lastOp.h = 1
    /\ lastOp.arg = <<2>>
    /\ handles[1].count = 2
    /\ handles[2].count = 2
    /\ nodes[handles[1].top].data = nodes[handles[2].top].data
    /\ nodes[handles[1].top].prev # nodes[handles[2].top].prev
    /\ lastOp.ret.val = <<0>>

\* C13: after b = a.copy(), once a and b have pushed and popped back to the
\* point they shared, both tops are the node they shared and a equals b;
\* and while both stand k nodes above it holding equal values there, a
\* equals b.
Reconverge ==
    fork.a # 0 =>
        /\ (fork.da = 0 /\ fork.db = 0) =>
              /\ handles[fork.a].top = fork.top
              /\ handles[fork.b].top = fork.top
              /\ SE_eq(nodes, handles[fork.a], handles[fork.b])
              /\ SE_eq(nodes, handles[fork.b], handles[fork.a])
        /\ (/\ fork.da = fork.db
            /\ SubSeq(abs[fork.a], 1, fork.da) = SubSeq(abs[fork.b], 1, fork.db))
           => SE_eq(nodes, handles[fork.a], handles[fork.b])

\* a and its copy b have both pushed and popped back to the node they
\* shared, and a == b returned true
ReconvergeWitness ==
    /\ lastOp.op = "eq"
    /\ lastOp.h = 1
    /\ lastOp.arg = <<2>>
    /\ lastOp.ret.val = <<1>>
    /\ fork.a = 1
    /\ fork.top # 0
    /\ fork.pa
    /\ fork.pb
    /\ fork.da = 0
    /\ fork.db = 0

\* n pushes of one value each, in order
RECURSIVE SinglePushes(_, _, _)
SinglePushes(ns, se, ds) ==
    IF ds = <<>>
    THEN [ns |-> ns, se |-> se]
    ELSE LET r == SE_push(ns, se, <<Head(ds)>>)
         IN  SinglePushes(r.ns, r.se, Tail(ds))

\* C14: push(v1, ..., vn) allocates one node per value, in argument order,
\* each on the top as it then is, ends with the last node on top and the
\* count n higher, as n pushes of one value do; push() changes nothing.
PushVariadic ==
    [][lastOp'.op = "push" =>
          LET h == lastOp'.h
              ds == lastOp'.arg
              n == Len(ds)
              base == Len(nodes)
          IN  /\ Len(nodes') = base + n
              /\ SubSeq(nodes', 1, base) = nodes
              /\ \A i \in 1..n :
                    nodes'[base + i] =
                        [data |-> ds[i],
                         prev |-> IF i = 1 THEN handles[h].top ELSE base + i - 1]
              /\ handles'[h].count = handles[h].count + n
              /\ handles'[h].top = IF n = 0 THEN handles[h].top ELSE base + n
              /\ n = 0 => handles' = handles /\ nodes' = nodes
              /\ [ns |-> nodes', se |-> handles'[h]]
                    = SinglePushes(nodes, handles[h], ds)
              /\ \A g \in Handles \ {h} : handles'[g] = handles[g]]_vars

\* two different values were pushed at once onto a non-empty handle
PushVariadicWitness ==
    /\ lastOp.op = "push"
    /\ Len(lastOp.arg) = 2
    /\ lastOp.arg[1] # lastOp.arg[2]
    /\ handles[lastOp.h].count = 3
    /\ nodes[handles[lastOp.h].top].data = lastOp.arg[2]

\* C15: SplitEnd(v1, ..., vn) is SplitEnd() followed by push(v1, ..., vn):
\* count n, iteration vn .. v1, root the bottom node holding v1, vn on top;
\* SplitEnd() has count 0 and empty top and root.
ConstructOldestFirst ==
    [][lastOp'.op = "init" =>
          LET h == lastOp'.h
              ds == lastOp'.arg
              n == Len(ds)
              e == SE_init(nodes, <<>>)
              r == SE_push(e.ns, e.se, ds)
          IN  /\ e.se = [count |-> 0, top |-> 0, root |-> 0]
              /\ e.ns = nodes
              /\ nodes' = r.ns
              /\ handles'[h] = r.se
              /\ handles'[h].count = n
              /\ SE_iter(nodes', handles'[h]) = [i \in 1..n |-> ds[n + 1 - i]]
              /\ n = 0 => handles'[h] = [count |-> 0, top |-> 0, root |-> 0]
              /\ n > 0 =>
                    /\ nodes'[handles'[h].root] = [data |-> ds[1], prev |-> 0]
                    /\ nodes'[handles'[h].top].data = ds[n]]_vars

\* a second handle was constructed with two different values
ConstructWitness ==
    /\ lastOp.op = "init"
    /\ lastOp.h = 2
    /\ Len(lastOp.arg) = 2
    /\ lastOp.arg[1] # lastOp.arg[2]
    /\ handles[2].root # handles[2].top
    /\ handles[2].root > 1

FIFOQueueOrder ==
    [][lastOp'.op = "fq.pop" =>
        IF Pending(queues.fin) = {}
        THEN /\ lastOp'.ret = [kind |-> "MB", val |-> <<>>]
             /\ Q_len(queues'.fifo) = 0
             /\ ~Q_bool(queues'.fifo)
        ELSE /\ lastOp'.ret =
                    [kind |-> "MB", val |-> <<queues.fin[Oldest(queues.fin)].v>>]
             /\ Q_len(queues'.fifo) = Q_len(queues.fifo) - 1]_vars

\* Values 1, 2, 1 were pushed and two pops happened: the second one gave 2.
FIFOQueueWitness ==
    /\ lastOp.op = "fq.pop"
    /\ lastOp.ret = [kind |-> "MB", val |-> <<2>>]
    /\ Len(queues.fin) = 3
    /\ queues.fin[1] = [v |-> 1, out |-> TRUE]
    /\ queues.fin[2] = [v |-> 2, out |-> TRUE]
    /\ queues.fin[3] = [v |-> 1, out |-> FALSE]

\* C18: LIFOQueue ordering.  A pop of the LIFOQueue returns, as a non-empty
\* MB, the value pushed latest among those not yet popped and shortens the
\* queue by one; a peak returns that same value and changes nothing.  When
\* every value pushed has been popped both return the empty MB() and the
\* queue has length 0 and is falsy.
LIFOQueueOrder ==
    [][/\ lastOp'.op = "lq.pop" =>
            IF Pending(queues.lin) = {}
            THEN /\ lastOp'.ret = [kind |-> "MB", val |-> <<>>]
                 /\ Q_len(queues'.lifo) = 0
                 /\ ~Q_bool(queues'.lifo)
            ELSE /\ lastOp'.ret =
                        [kind |-> "MB", val |-> <<queues.lin[Newest(queues.lin)].v>>]
                 /\ Q_len(queues'.lifo) = Q_len(queues.lifo) - 1
       /\ lastOp'.op = "lq.peak" =>
            /\ queues' = queues
            /\ IF Pending(queues.lin) = {}
               THEN /\ lastOp'.ret = [kind |-> "MB", val |-> <<>>]
                    /\ Q_len(queues'.lifo) = 0
                    /\ ~Q_bool(queues'.lifo)
               ELSE lastOp'.ret =
                        [kind |-> "MB", val |-> <<queues.lin[Newest(queues.lin)].v>>]
      ]_vars

\* Values 1, 2 were pushed, 2 was popped, 1 pushed again and popped: a peak
\* now shows the first value pushed, still in the queue.
LIFOQueueWitness ==
    /\ lastOp.op = "lq.peak"
    /\ lastOp.ret = [kind |-> "MB", val |-> <<1>>]
    /\ Len(queues.lin) = 3
    /\ queues.lin[1] = [v |-> 1, out |-> FALSE]
    /\ queues.lin[2] = [v |-> 2, out |-> TRUE]
    /\ queues.lin[3] = [v |-> 1, out |-> TRUE]
    /\ Q_len(queues.lifo) = 1

\* C19: node immutability.  Whatever the operation (construction, push, pop,
\* copy, peak, fold, equals, iteration) and whichever the handle, every node
\* allocated before the step has the same data and the same predecessor
\* after it; a step changes only handles, and allocates new nodes.
NodesImmutable ==
    [][/\ Len(nodes') >= Len(nodes)
       /\ \A n \in 1..Len(nodes) :
             /\ nodes'[n].data = nodes[n].data
             /\ nodes'[n].prev = nodes[n].prev]_vars

\* Two handles share a node, and one of them has pushed on top of it.
NodesImmutableWitness ==
    /\ Len(handles) = 2
    /\ lastOp.op = "push"
    /\ lastOp.h = 2
    /\ handles[1].top # 0
    /\ handles[2].count > handles[1].count
    /\ \E n \in 1..Len(nodes) : nodes[n].prev = handles[1].top

\* The node reached from node n by following prev k times; 0 once a bottom
\* node has been passed.
RECURSIVE Walk(_, _)
Walk(n, k) == IF k = 0 \/ n = 0 THEN n ELSE Walk(nodes[n].prev, k - 1)

\* C20: acyclic convergent forest.  In every reachable state each node's one
\* predecessor reference is empty or names a node allocated strictly before
\* it, no node is reached from itself by following prev, and from the top of
\* every non-empty handle a bottom node is reached in fewer steps than there
\* are nodes.
AcyclicForest ==
    /\ \A n \in 1..Len(nodes) :
          /\ nodes[n].prev \in 0..(n - 1)
          /\ \A k \in 1..Len(nodes) : Walk(n, k) # n
    /\ \A h \in Handles :
          /\ handles[h].top \in 0..Len(nodes)
          /\ handles[h].top # 0 =>
                \E k \in 0..(Len(nodes) - 1) :
                    /\ Walk(handles[h].top, k) # 0
                    /\ nodes[Walk(handles[h].top, k)].prev = 0

\* Two nodes have the same predecessor, each the top of a handle of length 2.
AcyclicForestWitness ==
    /\ Len(handles) = 2
    /\ handles[1].top # handles[2].top
    /\ handles[1].top # 0
    /\ handles[2].top # 0
    /\ nodes[handles[1].top].prev # 0
    /\ nodes[handles[1].top].prev = nodes[handles[2].top].prev

\* C21: valid empty state.  In every reachable state a handle whose count is
\* 0 has an empty top and an empty root.  A pop that takes the count from 1
\* to 0 leaves root and top both empty, and a push of values onto a handle
\* whose count is 0 makes the first node it allocates a bottom node and the
\* handle's root, with the top on the last node allocated (the same node
\* when one value is pushed).
ValidEmpty ==
    /\ [](\A h \in Handles :
             handles[h].count = 0 => handles[h].top = 0 /\ handles[h].root = 0)
    /\ [][/\ (lastOp'.op = "pop" /\ handles[lastOp'.h].count = 1) =>
                /\ handles'[lastOp'.h].count = 0
                /\ handles'[lastOp'.h].top = 0
                /\ handles'[lastOp'.h].root = handles'[lastOp'.h].top
          /\ (/\ lastOp'.op = "push"
              /\ Len(lastOp'.arg) > 0
              /\ handles[lastOp'.h].count = 0) =>
                /\ Len(nodes') = Len(nodes) + Len(lastOp'.arg)
                /\ handles'[lastOp'.h].root = Len(nodes) + 1
                /\ nodes'[Len(nodes) + 1].prev = 0
                /\ handles'[lastOp'.h].top = Len(nodes')
                /\ handles'[lastOp'.h].count = Len(lastOp'.arg)]_vars

\* The only handle was emptied by a pop and then given one value: its root
\* and its top are the second node allocated, a bottom node.
ValidEmptyWitness ==
    /\ Len(handles) = 1
    /\ lastOp.op = "push"
    /\ lastOp.rt # <<>>
    /\ lastOp.rt[3] = 0
    /\ Len(nodes) = 2
    /\ handles[1].root = 2
    /\ handles[1].top = 2
    /\ nodes[2].prev = 0

\* The lock-step positions, counted from the top, at which the walkers of
\* two handles of equal length stand on the identical node.
Converged(a, b) ==
    {i \in 0..(handles[a].count - 1) :
        Walk(handles[a].top, i) = Walk(handles[b].top, i)}

\* The data at lock-step position i of handle a.
DataAt(a, i) == nodes[Walk(handles[a].top, i)].data

\* C22: equality short-circuit and termination.  __eq__ on two handles of
\* equal length ends within count iterations of its loop with the answer of
\* the comparison of the two iterations.  When the walkers meet on an
\* identical node, no data is compared at or below the first such position:
\* the data comparisons number at most the unshared positions above it, and
\* when the data above it agree the answer is true after exactly that many.
EqShortCircuit ==
    /\ \A a \in Handles, b \in Handles :
          handles[a].count = handles[b].count =>
              LET t == SE_eq_counted(nodes, handles[a], handles[b])
                  conv == Converged(a, b)
                  first == CHOOSE i \in conv : \A j \in conv : i <= j
              IN  /\ t.iters <= handles[a].count
                  /\ t.cmps <= t.iters
                  /\ t.ret = SE_eq(nodes, handles[a], handles[b])
                  /\ t.ret = (SE_iter(nodes, handles[a]) = SE_iter(nodes, handles[b]))
                  /\ conv # {} =>
                        /\ t.cmps <= first
                        /\ (\A i \in 0..(first - 1) : DataAt(a, i) = DataAt(b, i))
                              => t.ret /\ t.cmps = first /\ t.iters = first + 1
    /\ lastOp.op = "eq" =>
          lastOp.ret = ReturnsBool(
              SE_eq_counted(nodes, handles[lastOp.h], handles[lastOp.arg[1]]).ret)

\* Two handles of length 2 with different top nodes holding equal data on
\* one shared node were compared: true after one data comparison.
EqShortCircuitWitness ==
    /\ lastOp.op = "eq"
    /\ lastOp.h = 1
    /\ lastOp.arg = <<2>>
    /\ lastOp.ret = ReturnsBool(TRUE)
    /\ handles[1].count = 2
    /\ handles[2].count = 2
    /\ handles[1].top # handles[2].top
    /\ nodes[handles[1].top].prev = nodes[handles[2].top].prev
    /\ SE_eq_counted(nodes, handles[1], handles[2]).cmps = 1

\* C23: copy's frame and effect.  A copy allocates no node and changes no
\* node; it leaves the count, top and root of the original and every other
\* handle as they were; it adds one new handle, distinct from the original,
\* whose length and iteration are those of the original and which equals
\* the original right after the copy.
CopyFrame ==
    [][lastOp'.op = "copy" =>
          LET a == lastOp'.h
              b == lastOp'.arg[1]
          IN  /\ nodes' = nodes
              /\ Len(handles') = Len(handles) + 1
              /\ b = Len(handles')
              /\ b # a
              /\ \A h \in Handles : handles'[h] = handles[h]
              /\ SE_len(handles'[b]) = SE_len(handles[a])
              /\ SE_iter(nodes', handles'[b]) = SE_iter(nodes, handles[a])
              /\ SE_eq(nodes', handles'[a], handles'[b])
              /\ SE_eq(nodes', handles'[b], handles'[a])]_vars

\* A handle of length 2 has just been copied.
CopyFrameWitness ==
    /\ lastOp.op = "copy"
    /\ lastOp.h = 1
    /\ lastOp.arg = <<2>>
    /\ handles[1].count = 2
    /\ handles[2].count = 2
    /\ handles[2].top = handles[1].top
    /\ handles[1].root # 0

\* C24: iterator snapshot.  Whatever pushes, pops, copies and constructions
\* come between obtaining an iterator and consuming it, the values it has
\* yielded so far followed by those it has yet to yield are the contents,
\* top to bottom, the handle had when the iterator was obtained; an
\* exhausted iterator has yielded exactly those.
IteratorSnapshot ==
    iterator.open =>
        /\ iterator.out \o (IF iterator.node = 0 THEN <<>>
                            ELSE Node_iter(nodes, iterator.node)) = iterator.snap
        /\ iterator.node = 0 => iterator.out = iterator.snap

\* An iterator over a handle of length 2 yielded its last value right after
\* a pop, and the handle no longer holds what the iterator yielded.
IteratorSnapshotWitness ==
    /\ iterator.open
    /\ iterator.node = 0
    /\ Len(iterator.out) = 2
    /\ lastOp.op = "iter.next"
    /\ lastOp.rt = <<"pop">>
    /\ SE_iter(nodes, handles[iterator.h]) # iterator.out

====
